---- MODULE Spec2Model ----
(***************************************************************************)
(* Conversation session of the stock assistant front end: the useChat      *)
(* hook (hooks/useChat), the ChatInterface component that drives it and    *)
(* the ChatInput form.  One step of the model is one browser event: a user *)
(* event handler run to completion, or the continuation of an awaited      *)
(* backend request.  React commits the state updates of an event before    *)
(* the next event is delivered, so every handler sees the state (and the   *)
(* closures) of the latest render.                                         *)
(*                                                                         *)
(* Text is a sequence of characters; a fixed literal of the program is a   *)
(* one-element sequence holding the literal.                               *)
(***************************************************************************)
EXTENDS Integers, Sequences, FiniteSets, TLC

\* ---------------------------------------------------------------- bounds
MaxSends == 2
MaxClock == 1
MaxRefreshes == 3
MaxTickerLen == 6

\* ------------------------------------------------------------- constants
Null == "null"
NoTicker == "none"
Tickers == {"AAPL", "MSFT"}
InitialTickers == {NoTicker, "AAPL"}
\* texts typed into the input box: empty, blank, and two that differ after trim
Texts == {<<>>, <<" ", " ">>, <<" ", "a", " ">>, <<"b", " ">>}
\* one of the four example questions of the empty state
ExampleQuestions == {<<"What's the latest news?">>}
ReplyTexts == {<<"r1">>}
ErrorText == <<"Sorry, I encountered an error processing your request. Please try again.">>
Failures == {"Network Error", "timeout of 30000ms exceeded", "Request failed with status code 500"}
Responses == [response : ReplyTexts, ticker : Tickers \cup {NoTicker}]
NoResponse == [response |-> <<>>, ticker |-> NoTicker]

VARIABLES
  messages,        \* useChat: the message log
  isLoading,       \* useChat: pending flag
  error,           \* useChat: lastError
  chatHistory,     \* useChat: historySummary
  currentTicker,   \* ChatInterface: activeTicker
  initialTicker,   \* ChatInterface prop: construction-time ticker
  message,         \* ChatInput: text of the input box
  inflight,        \* chat requests whose sendMessage call has not returned yet
  nextReq,         \* number of sendMessage calls made so far
  now,             \* Date.now()
  calls,           \* history: queries of the sendMessage calls since the last clear
  cleared,         \* history: a clear was done and no sendMessage call since
  dirty,           \* history: the last clear was done while a send was in flight
  completed,       \* history: (user, assistant) entries of all successful turns
  clearMark,       \* history: Len(completed) at the last clear
  turnOf,          \* history: for each message of the log, the call that appended it
  clears           \* history: clears made in a row (counted up to 2)

VARIABLES
  dashboardData,   \* Dashboard: the overview, with loaded FALSE for null
  prices,          \* Dashboard: ticker -> latest price or null
  news,            \* Dashboard: news items
  loading,         \* Dashboard: loading flag
  dashError,       \* Dashboard: error
  signalFilter,    \* Dashboard: selected signal filter
  refreshes,       \* Dashboard: fetchDashboardData calls that have not returned
  nextGen,         \* Dashboard: number of fetchDashboardData calls made so far
  dataGen,         \* history: the call that set dashboardData
  pricesGen,       \* history: the call that set prices
  newsGen,         \* history: the call that set news
  newsRequests     \* history: the news fetches issued, as <<call, ticker>>

VARIABLES
  udData,          \* useDashboard: data, with loaded FALSE for null
  udLoading,       \* useDashboard: loading
  udError,         \* useDashboard: error
  udParams,        \* useDashboard: the arguments limit and signalFilter
  udRequests,      \* useDashboard: fetchDashboard calls that have not returned
  udNextGen,       \* useDashboard: number of fetchDashboard calls made so far
  udDataGen        \* history: the call that set data

VARIABLES
  tickerInput,     \* isValidTicker: the argument
  tickerChecked,   \* isValidTicker: the call has returned
  tickerResult     \* isValidTicker: the value returned

dashVars == <<dashboardData, prices, news, loading, dashError, signalFilter,
              refreshes, nextGen, dataGen, pricesGen, newsGen, newsRequests>>
udVars == <<udData, udLoading, udError, udParams, udRequests, udNextGen, udDataGen>>

sessionVars == <<messages, isLoading, error, chatHistory, currentTicker,
                 initialTicker, message, inflight, nextReq, now>>
historyVars == <<calls, cleared, dirty, completed, clearMark, turnOf, clears>>
chatVars == <<sessionVars, historyVars>>
utilVars == <<tickerInput, tickerChecked, tickerResult>>
vars == <<chatVars, dashVars, udVars, utilVars>>

\* --------------------------------------------------------------- helpers
RECURSIVE trimStart(_)
trimStart(s) ==
  IF s = <<>> THEN <<>>
  ELSE IF Head(s) = " " THEN trimStart(Tail(s)) ELSE s

RECURSIVE trimEnd(_)
trimEnd(s) ==
  IF s = <<>> THEN <<>>
  ELSE IF s[Len(s)] = " " THEN trimEnd(SubSeq(s, 1, Len(s) - 1)) ELSE s

trim(s) == trimEnd(trimStart(s))

userMessage(query) ==
  [id |-> now, type |-> "user", content |-> query, ticker |-> NoTicker]

aiMessage(response) ==
  [id |-> now + 1, type |-> "assistant", content |-> response.response,
   ticker |-> response.ticker]

errorMessage ==
  [id |-> now + 1, type |-> "error", content |-> ErrorText, ticker |-> NoTicker]

\* the POST /chat request of sendChatMessage, awaiting its response
sendChatMessage(query, ticker, history, structured) ==
  [rid |-> nextReq + 1, query |-> query, ticker |-> ticker,
   chat_history |-> history, structured |-> structured,
   status |-> "pending", response |-> NoResponse, err |-> Null]

\* ------------------------------------------------------------- useChat
\* sendMessage up to its await: user message, flags, one request
sendMessage(query, ticker) ==
  /\ messages' = Append(messages, userMessage(query))
  /\ isLoading' = TRUE
  /\ error' = Null
  /\ inflight' = inflight \cup {sendChatMessage(query, ticker, chatHistory, FALSE)}
  /\ nextReq' = nextReq + 1
  /\ UNCHANGED chatHistory

\* variant: the history is rebuilt from the chatHistory the callback closed over
sendMessageResolved_ClosureHistory(r, response) ==
  /\ messages' = Append(messages, aiMessage(response))
  /\ chatHistory' = r.chat_history \o
       <<[role |-> "user", content |-> r.query],
         [role |-> "assistant", content |-> response.response]>>
  /\ isLoading' = FALSE
  /\ UNCHANGED error

\* variant: the reply takes the place of the last message of the log
sendMessageResolved_OverwritesLast(r, response) ==
  /\ messages' = IF messages = <<>> THEN <<aiMessage(response)>>
                 ELSE [messages EXCEPT ![Len(messages)] = aiMessage(response)]
  /\ chatHistory' = chatHistory \o
       <<[role |-> "user", content |-> r.query],
         [role |-> "assistant", content |-> response.response]>>
  /\ isLoading' = FALSE
  /\ UNCHANGED error

\* sendMessage after its await, the request fulfilled: try block and finally
sendMessageResolved(r, response) ==
  /\ messages' = Append(messages, aiMessage(response))
  /\ chatHistory' = chatHistory \o
       <<[role |-> "user", content |-> r.query],
         [role |-> "assistant", content |-> response.response]>>
  /\ isLoading' = FALSE
  /\ UNCHANGED error

\* variant: the catch block appends no error message
sendMessageRejected_NoErrorMessage(r, err) ==
  /\ error' = err
  /\ isLoading' = FALSE
  /\ UNCHANGED <<messages, chatHistory>>

\* variant: the error message shows the raw failure detail
sendMessageRejected_RawDetail(r, err) ==
  /\ messages' = Append(messages, [errorMessage EXCEPT !.content = <<err>>])
  /\ error' = err
  /\ isLoading' = FALSE
  /\ UNCHANGED chatHistory

\* variant: isLoading is reset in the try block only, not in a finally
sendMessageRejected_NoFinally(r, err) ==
  /\ messages' = Append(messages, errorMessage)
  /\ error' = err
  /\ UNCHANGED <<isLoading, chatHistory>>

\* sendMessage after its await, the request rejected: catch block and finally
sendMessageRejected(r, err) ==
  /\ messages' = Append(messages, errorMessage)
  /\ error' = err
  /\ isLoading' = FALSE
  /\ UNCHANGED chatHistory

\* variant: the history summary survives the clear
clearMessages_KeepsHistory ==
  /\ messages' = <<>>
  /\ error' = Null
  /\ UNCHANGED chatHistory

\* variant: the clear drops the last exchange only
clearMessages_DropsLastTurn ==
  /\ messages' = SubSeq(messages, 1, Len(messages) - 2)
  /\ chatHistory' = SubSeq(chatHistory, 1, Len(chatHistory) - 2)
  /\ error' = Null

clearMessages ==
  /\ messages' = <<>>
  /\ chatHistory' = <<>>
  /\ error' = Null

\* ------------------------------------------------------- ChatInterface
\* handleSendMessage up to its await
handleSendMessage(text) ==
  /\ nextReq < MaxSends
  /\ sendMessage(text, currentTicker)
  /\ calls' = Append(calls, text)
  /\ cleared' = FALSE
  /\ turnOf' = Append(turnOf, nextReq + 1)
  /\ clears' = 0
  /\ UNCHANGED <<currentTicker, initialTicker, now, dirty, completed, clearMark>>
  /\ UNCHANGED <<dashVars, udVars, utilVars>>

\* the ticker update of handleSendMessage; r.ticker is the currentTicker
\* the handler closed over when the call was made
tickerAfter(r, response) ==
  IF response.ticker # NoTicker /\ response.ticker # r.ticker
  THEN response.ticker
  ELSE currentTicker

\* the backend answers request r (response.data), or the request fails:
\* the promise of sendChatMessage settles
Settle(r, ok, response, err) ==
  /\ r \in inflight
  /\ r.status = "pending"
  /\ inflight' = (inflight \ {r}) \cup
       {IF ok THEN [r EXCEPT !.status = "fulfilled", !.response = response]
              ELSE [r EXCEPT !.status = "rejected", !.err = err]}
  /\ UNCHANGED <<messages, isLoading, error, chatHistory, currentTicker,
                 initialTicker, message, nextReq, now, historyVars>>
  /\ UNCHANGED <<dashVars, udVars, utilVars>>

\* request r was fulfilled: the rest of sendMessage, then the rest of
\* handleSendMessage
Resolve(r) ==
  /\ r \in inflight
  /\ r.status = "fulfilled"
  /\ inflight' = inflight \ {r}
  /\ sendMessageResolved(r, r.response)
  /\ currentTicker' = tickerAfter(r, r.response)
  /\ completed' = completed \o
       <<[role |-> "user", content |-> r.query],
         [role |-> "assistant", content |-> r.response.response]>>
  /\ turnOf' = Append(turnOf, r.rid)
  /\ clears' = 0
  /\ UNCHANGED <<initialTicker, message, nextReq, now, calls,
                 cleared, dirty, clearMark>>
  /\ UNCHANGED <<dashVars, udVars, utilVars>>

\* request r was rejected: catch and finally of sendMessage, catch of
\* handleSendMessage
Reject(r) ==
  /\ r \in inflight
  /\ r.status = "rejected"
  /\ inflight' = inflight \ {r}
  /\ sendMessageRejected(r, r.err)
  /\ turnOf' = Append(turnOf, r.rid)
  /\ clears' = 0
  /\ UNCHANGED <<currentTicker, initialTicker, message, nextReq, now,
                 calls, cleared, dirty, completed, clearMark>>
  /\ UNCHANGED <<dashVars, udVars, utilVars>>

\* one of the example buttons, rendered while the log is empty
ExampleClick(example) ==
  /\ Len(messages) = 0
  /\ handleSendMessage(example)
  /\ UNCHANGED message

\* handleClearChat once the user has confirmed
clearChat ==
  /\ clearMessages
  /\ currentTicker' = initialTicker
  /\ calls' = <<>>
  /\ cleared' = TRUE
  /\ dirty' = (inflight # {})
  /\ clearMark' = Len(completed)
  /\ turnOf' = <<>>
  /\ clears' = IF clears = 0 THEN 1 ELSE 2
  /\ UNCHANGED <<isLoading, initialTicker, message, inflight, nextReq,
                 now, completed>>
  /\ UNCHANGED <<dashVars, udVars, utilVars>>

\* the Clear button, rendered while the log is not empty
handleClearChat(confirm) ==
  /\ Len(messages) > 0
  /\ IF confirm THEN clearChat ELSE UNCHANGED vars

\* ----------------------------------------------------------- ChatInput
\* onChange of the input box, which is disabled while isLoading
handleChange(text) ==
  /\ ~isLoading
  /\ message' = text
  /\ UNCHANGED <<messages, isLoading, error, chatHistory, currentTicker,
                 initialTicker, inflight, nextReq, now, calls,
                 cleared, dirty, completed, clearMark, turnOf, clears>>
  /\ UNCHANGED <<dashVars, udVars, utilVars>>

handleSubmit ==
  IF trim(message) # <<>> /\ ~isLoading
  THEN /\ handleSendMessage(trim(message))
       /\ message' = <<>>
  ELSE UNCHANGED vars

\* --------------------------------------------------------------- clock
Tick ==
  /\ now < MaxClock
  /\ now' = now + 1
  /\ UNCHANGED <<messages, isLoading, error, chatHistory, currentTicker,
                 initialTicker, message, inflight, nextReq, historyVars>>
  /\ UNCHANGED <<dashVars, udVars, utilVars>>

\* ----------------------------------------------------- Dashboard page
SignalFilters == {Null, "BUY", "SELL"}
DashTickers == {"AAPL", "MSFT", "TSLA"}
\* the analyses of an overview response, by their tickers
Overviews == {<<>>, <<"AAPL">>, <<"MSFT", "AAPL">>, <<"AAPL", "MSFT", "TSLA">>}
PriceData == {"p1"}
NewsLists(ticker) == {<<>>, <<[ticker |-> ticker, title |-> "n1"]>>}
DashErrorText == "Failed to load dashboard data. Please try again."
NoData == [loaded |-> FALSE, analyses |-> <<>>]
NoPrices == [t \in {} |-> Null]
NoFetch == [status |-> "none", ticker |-> NoTicker, items |-> <<>>]

Range(seq) == {seq[i] : i \in 1..Len(seq)}

\* a fetchDashboardData call awaiting getDashboardOverview(10, filter)
getDashboardOverview(gen, filter) ==
  [gen |-> gen, filter |-> filter, pc |-> "overview",
   overview |-> [status |-> "pending", analyses |-> <<>>],
   priceFetch |-> NoPrices, newsFetch |-> NoFetch]

\* fetchDashboardData up to its first await
fetchDashboardData(filter) ==
  /\ nextGen < MaxRefreshes
  /\ loading' = TRUE
  /\ dashError' = Null
  /\ refreshes' = refreshes \cup {getDashboardOverview(nextGen + 1, filter)}
  /\ nextGen' = nextGen + 1
  /\ UNCHANGED <<dashboardData, prices, news, dataGen, pricesGen, newsGen,
                 newsRequests>>
  /\ UNCHANGED <<chatVars, udVars, utilVars>>

\* the filter select (rendered when neither loading nor error): the new
\* filter is stored and the effect on [signalFilter] refetches
FilterChange(filter) ==
  /\ ~loading /\ dashError = Null
  /\ filter # signalFilter
  /\ signalFilter' = filter
  /\ fetchDashboardData(filter)

\* variant of RefreshClick with the button rendered during a refresh too
RefreshClick_WhileLoading ==
  /\ fetchDashboardData(signalFilter)
  /\ UNCHANGED signalFilter

\* the Refresh button (rendered when neither loading nor error)
RefreshClick ==
  /\ ~loading /\ dashError = Null
  /\ fetchDashboardData(signalFilter)
  /\ UNCHANGED signalFilter

\* the Retry button of the error page
RetryClick ==
  /\ ~loading /\ dashError # Null
  /\ fetchDashboardData(signalFilter)
  /\ UNCHANGED signalFilter

\* a step of call p that replaces its record by q and touches nothing else
Advance(p, q) ==
  /\ refreshes' = (refreshes \ {p}) \cup {q}
  /\ UNCHANGED <<dashboardData, prices, news, loading, dashError, signalFilter,
                 nextGen, dataGen, pricesGen, newsGen, newsRequests>>
  /\ UNCHANGED <<chatVars, udVars, utilVars>>

\* the overview request of call p settles
OverviewSettle(p, ok, analyses) ==
  /\ p \in refreshes /\ p.pc = "overview" /\ p.overview.status = "pending"
  /\ Advance(p, [p EXCEPT !.overview =
                   IF ok THEN [status |-> "fulfilled", analyses |-> analyses]
                         ELSE [status |-> "rejected", analyses |-> <<>>]])

\* variant of overviewRejected that drops the snapshot shown before
overviewRejected_DropsSnapshot(p) ==
  /\ dashError' = DashErrorText
  /\ loading' = FALSE
  /\ refreshes' = refreshes \ {p}
  /\ dashboardData' = NoData
  /\ prices' = NoPrices
  /\ news' = <<>>
  /\ UNCHANGED <<dataGen, pricesGen, newsGen, newsRequests>>

\* variant of overviewRejected whose catch is not followed by a finally
overviewRejected_NoFinally(p) ==
  /\ dashError' = DashErrorText
  /\ refreshes' = refreshes \ {p}
  /\ UNCHANGED <<dashboardData, prices, news, loading, dataGen, pricesGen,
                 newsGen, newsRequests>>

\* the overview request failed: outer catch and finally
overviewRejected(p) ==
  /\ dashError' = DashErrorText
  /\ loading' = FALSE
  /\ refreshes' = refreshes \ {p}
  /\ UNCHANGED <<dashboardData, prices, news, dataGen, pricesGen, newsGen,
                 newsRequests>>

\* the overview arrived: setDashboardData, then either the price fetches of
\* a non-empty list are issued or the call ends in its finally
overviewFulfilled(p) ==
  /\ dashboardData' = [loaded |-> TRUE, analyses |-> p.overview.analyses]
  /\ dataGen' = p.gen
  /\ IF Len(p.overview.analyses) > 0
     THEN /\ refreshes' = (refreshes \ {p}) \cup
               {[p EXCEPT !.pc = "prices",
                          !.priceFetch = [t \in Range(p.overview.analyses) |->
                                            [status |-> "pending", price |-> Null]]]}
          /\ UNCHANGED loading
     ELSE /\ refreshes' = refreshes \ {p}
          /\ loading' = FALSE
  /\ UNCHANGED <<prices, news, dashError, pricesGen, newsGen, newsRequests>>

OverviewContinue(p) ==
  /\ p \in refreshes /\ p.pc = "overview" /\ p.overview.status # "pending"
  /\ IF p.overview.status = "rejected"
     THEN overviewRejected(p)
     ELSE overviewFulfilled(p)
  /\ UNCHANGED <<signalFilter, nextGen>>
  /\ UNCHANGED <<chatVars, udVars, utilVars>>

\* getLatestPrice(ticker) of call p settles
PriceSettle(p, ticker, ok, price) ==
  /\ p \in refreshes /\ p.pc = "prices"
  /\ ticker \in DOMAIN p.priceFetch
  /\ p.priceFetch[ticker].status = "pending"
  /\ Advance(p, [p EXCEPT !.priceFetch[ticker] =
                   IF ok THEN [status |-> "fulfilled", price |-> price]
                         ELSE [status |-> "rejected", price |-> Null]])

\* the map callback of pricePromises: the price, or null when the fetch failed
priceResult(fetch) ==
  IF fetch.status = "fulfilled" THEN fetch.price ELSE Null

\* variant of pricesJoined that asks the news of the last listed ticker
pricesJoined_NewsForLast(p) ==
  /\ prices' = [t \in DOMAIN p.priceFetch |->
                  IF p.priceFetch[t].status = "fulfilled"
                  THEN p.priceFetch[t].price ELSE Null]
  /\ pricesGen' = p.gen
  /\ refreshes' = (refreshes \ {p}) \cup
       {[p EXCEPT !.pc = "news",
                  !.newsFetch = [status |-> "pending",
                                 ticker |-> p.overview.analyses[Len(p.overview.analyses)],
                                 items |-> <<>>]]}
  /\ newsRequests' = Append(newsRequests, <<p.gen, p.overview.analyses[Len(p.overview.analyses)]>>)
  /\ UNCHANGED <<dashboardData, news, loading, dashError, dataGen, newsGen>>

\* variant of pricesJoined without the catch of the map callback: one failed
\* price fetch rejects Promise.all and the call ends in the outer catch
pricesJoined_NoInnerCatch(p) ==
  IF \E t \in DOMAIN p.priceFetch : p.priceFetch[t].status = "rejected"
  THEN /\ dashError' = DashErrorText
       /\ loading' = FALSE
       /\ refreshes' = refreshes \ {p}
       /\ UNCHANGED <<dashboardData, prices, news, dataGen, pricesGen, newsGen,
                      newsRequests>>
  ELSE /\ prices' = [t \in DOMAIN p.priceFetch |-> p.priceFetch[t].price]
       /\ pricesGen' = p.gen
       /\ refreshes' = (refreshes \ {p}) \cup
            {[p EXCEPT !.pc = "news",
                       !.newsFetch = [status |-> "pending",
                                      ticker |-> p.overview.analyses[1],
                                      items |-> <<>>]]}
       /\ newsRequests' = Append(newsRequests, <<p.gen, p.overview.analyses[1]>>)
       /\ UNCHANGED <<dashboardData, news, loading, dashError, dataGen, newsGen>>

\* Promise.all(pricePromises) is fulfilled: setPrices, then the news fetch
\* for the first ticker is issued
pricesJoined(p) ==
  /\ prices' = [t \in DOMAIN p.priceFetch |-> priceResult(p.priceFetch[t])]
  /\ pricesGen' = p.gen
  /\ refreshes' = (refreshes \ {p}) \cup
       {[p EXCEPT !.pc = "news",
                  !.newsFetch = [status |-> "pending",
                                 ticker |-> p.overview.analyses[1],
                                 items |-> <<>>]]}
  /\ newsRequests' = Append(newsRequests, <<p.gen, p.overview.analyses[1]>>)
  /\ UNCHANGED <<dashboardData, news, loading, dashError, dataGen, newsGen>>

\* variant of PricesContinue that goes on as soon as one price fetch settled
PricesContinue_FirstSettled(p) ==
  /\ p \in refreshes /\ p.pc = "prices"
  /\ \E t \in DOMAIN p.priceFetch : p.priceFetch[t].status # "pending"
  /\ pricesJoined(p)
  /\ UNCHANGED <<signalFilter, nextGen>>
  /\ UNCHANGED <<chatVars, udVars, utilVars>>

PricesContinue(p) ==
  /\ p \in refreshes /\ p.pc = "prices"
  /\ \A t \in DOMAIN p.priceFetch : p.priceFetch[t].status # "pending"
  /\ pricesJoined(p)
  /\ UNCHANGED <<signalFilter, nextGen>>
  /\ UNCHANGED <<chatVars, udVars, utilVars>>

\* getTickerNews(firstTicker, 5, 30) of call p settles
NewsSettle(p, ok, items) ==
  /\ p \in refreshes /\ p.pc = "news" /\ p.newsFetch.status = "pending"
  /\ Advance(p, [p EXCEPT !.newsFetch.status = IF ok THEN "fulfilled" ELSE "rejected",
                          !.newsFetch.items = IF ok THEN items ELSE <<>>])

\* the news arrived or failed: setNews, then finally
newsSettled(p) ==
  /\ news' = IF p.newsFetch.status = "fulfilled" THEN p.newsFetch.items ELSE <<>>
  /\ newsGen' = p.gen
  /\ loading' = FALSE
  /\ refreshes' = refreshes \ {p}
  /\ UNCHANGED <<dashboardData, prices, dashError, dataGen, pricesGen, newsRequests>>

NewsContinue(p) ==
  /\ p \in refreshes /\ p.pc = "news" /\ p.newsFetch.status # "pending"
  /\ newsSettled(p)
  /\ UNCHANGED <<signalFilter, nextGen>>
  /\ UNCHANGED <<chatVars, udVars, utilVars>>

\* the page after mount: the effect has started the first fetch
DashInit ==
  /\ dashboardData = NoData
  /\ prices = NoPrices
  /\ news = <<>>
  /\ loading = TRUE
  /\ dashError = Null
  /\ signalFilter = Null
  /\ refreshes = {getDashboardOverview(1, Null)}
  /\ nextGen = 1
  /\ dataGen = 0
  /\ pricesGen = 0
  /\ newsGen = 0
  /\ newsRequests = <<>>

NextDashboard ==
  \/ \E filter \in SignalFilters : FilterChange(filter)
  \/ RefreshClick
  \/ RetryClick
  \/ \E p \in refreshes, analyses \in Overviews : OverviewSettle(p, TRUE, analyses)
  \/ \E p \in refreshes : OverviewSettle(p, FALSE, <<>>)
  \/ \E p \in refreshes : OverviewContinue(p)
  \/ \E p \in refreshes, t \in DashTickers, price \in PriceData : PriceSettle(p, t, TRUE, price)
  \/ \E p \in refreshes, t \in DashTickers : PriceSettle(p, t, FALSE, Null)
  \/ \E p \in refreshes : PricesContinue(p)
  \/ \E p \in refreshes, t \in DashTickers : \E items \in NewsLists(t) :
       p.newsFetch.ticker = t /\ NewsSettle(p, TRUE, items)
  \/ \E p \in refreshes : NewsSettle(p, FALSE, <<>>)
  \/ \E p \in refreshes : NewsContinue(p)

\* -------------------------------------------------- useDashboard hook
Limits == {10, 5}
UdParams == [limit : Limits, filter : {Null, "BUY"}]
UdOverviews == {<<>>, <<"AAPL">>}

\* a fetchDashboard call awaiting getDashboardOverview(limit, signalFilter)
udRequest(gen, params) ==
  [gen |-> gen, params |-> params, status |-> "pending",
   analyses |-> <<>>, err |-> Null]

\* fetchDashboard up to its await
fetchDashboard(params) ==
  /\ udNextGen < MaxRefreshes
  /\ udLoading' = TRUE
  /\ udError' = Null
  /\ udRequests' = udRequests \cup {udRequest(udNextGen + 1, params)}
  /\ udNextGen' = udNextGen + 1
  /\ UNCHANGED <<udData, udDataGen>>
  /\ UNCHANGED <<chatVars, dashVars, utilVars>>

\* the component using the hook passes new arguments: fetchDashboard is
\* rebuilt and the effect on [fetchDashboard] calls it
UdArgsChange(params) ==
  /\ params # udParams
  /\ udParams' = params
  /\ fetchDashboard(params)

\* refetch() of the returned object
UdRefetch ==
  /\ fetchDashboard(udParams)
  /\ UNCHANGED udParams

\* the overview request r settles
UdSettle(r, ok, analyses, err) ==
  /\ r \in udRequests /\ r.status = "pending"
  /\ udRequests' = (udRequests \ {r}) \cup
       {IF ok THEN [r EXCEPT !.status = "fulfilled", !.analyses = analyses]
              ELSE [r EXCEPT !.status = "rejected", !.err = err]}
  /\ UNCHANGED <<udData, udLoading, udError, udParams, udNextGen, udDataGen>>
  /\ UNCHANGED <<chatVars, dashVars, utilVars>>

\* fetchDashboard after its await: try or catch, then finally
UdContinue(r) ==
  /\ r \in udRequests /\ r.status # "pending"
  /\ udRequests' = udRequests \ {r}
  /\ IF r.status = "fulfilled"
     THEN /\ udData' = [loaded |-> TRUE, analyses |-> r.analyses]
          /\ udDataGen' = r.gen
          /\ UNCHANGED udError
     ELSE /\ udError' = r.err
          /\ UNCHANGED <<udData, udDataGen>>
  /\ udLoading' = FALSE
  /\ UNCHANGED <<udParams, udNextGen>>
  /\ UNCHANGED <<chatVars, dashVars, utilVars>>

\* the hook after mount: the effect has started the first fetch
UdInit ==
  /\ udData = NoData
  /\ udLoading = TRUE
  /\ udError = Null
  /\ udParams = [limit |-> 10, filter |-> Null]
  /\ udRequests = {udRequest(1, [limit |-> 10, filter |-> Null])}
  /\ udNextGen = 1
  /\ udDataGen = 0

NextUseDashboard ==
  \/ \E params \in UdParams : UdArgsChange(params)
  \/ UdRefetch
  \/ \E r \in udRequests, analyses \in UdOverviews : UdSettle(r, TRUE, analyses, Null)
  \/ \E r \in udRequests, err \in Failures : UdSettle(r, FALSE, <<>>, err)
  \/ \E r \in udRequests : UdContinue(r)

\* ------------------------------------------------------- isValidTicker
\* the characters '1', 'A', 'Z', '[' and 'a' with their char codes
Chars == {"A", "Z", "a", "1", "["}
Code == [c \in Chars |->
           CASE c = "1" -> 49 [] c = "A" -> 65 [] c = "Z" -> 90
             [] c = "[" -> 91 [] c = "a" -> 97]

RECURSIVE StringsUpTo(_)
StringsUpTo(n) ==
  IF n = 0 THEN {<<>>}
  ELSE LET shorter == StringsUpTo(n - 1)
       IN shorter \cup {Append(s, c) : s \in {t \in shorter : Len(t) = n - 1},
                                       c \in Chars}

\* the arguments: null, undefined and the strings of up to MaxTickerLen chars
TickerInputs ==
  {[kind |-> k, chars |-> <<>>] : k \in {"null", "undefined"}}
    \cup {[kind |-> "string", chars |-> s] : s \in StringsUpTo(MaxTickerLen)}

\* !ticker
falsy(ticker) == ticker.kind \in {"null", "undefined"} \/ ticker.chars = <<>>

\* the class [A-Z]
upper(c) == Code[c] >= 65 /\ Code[c] <= 90

\* [A-Z]{1,5} from position i: the greedy run of class characters, at most
\* max of them; returns the position after the run
RECURSIVE run(_, _, _)
run(s, i, max) ==
  IF max > 0 /\ i <= Len(s) /\ upper(s[i]) THEN run(s, i + 1, max - 1) ELSE i

\* variant of test without the $ anchor
test_NoEndAnchor(s) == run(s, 1, 5) >= 2

\* /^[A-Z]{1,5}$/.test(s): at least one class character from the start and
\* the end of input after the run (a shorter run would not reach the end)
test(s) == run(s, 1, 5) >= 2 /\ run(s, 1, 5) = Len(s) + 1

isValidTicker(ticker) ==
  IF falsy(ticker) THEN FALSE ELSE test(ticker.chars)

\* a call of isValidTicker with the argument chosen at the start
Validate ==
  /\ ~tickerChecked
  /\ tickerChecked' = TRUE
  /\ tickerResult' = isValidTicker(tickerInput)
  /\ UNCHANGED tickerInput
  /\ UNCHANGED <<chatVars, dashVars, udVars>>

UtilInit ==
  /\ tickerInput = [kind |-> "null", chars |-> <<>>]
  /\ tickerChecked = FALSE
  /\ tickerResult = FALSE

TickerInit ==
  /\ tickerInput \in TickerInputs
  /\ tickerChecked = FALSE
  /\ tickerResult = FALSE

\* ------------------------------------------------------- specification
ChatInit ==
  /\ messages = <<>>
  /\ isLoading = FALSE
  /\ error = Null
  /\ chatHistory = <<>>
  /\ initialTicker \in InitialTickers
  /\ currentTicker = initialTicker
  /\ message = <<>>
  /\ inflight = {}
  /\ nextReq = 0
  /\ now = 0
  /\ calls = <<>>
  /\ cleared = FALSE
  /\ dirty = FALSE
  /\ completed = <<>>
  /\ clearMark = 0
  /\ turnOf = <<>>
  /\ clears = 0

Init ==
  /\ ChatInit
  /\ DashInit
  /\ UdInit
  /\ UtilInit

Next ==
  \/ \E text \in Texts : handleChange(text)
  \/ handleSubmit
  \/ \E example \in ExampleQuestions : ExampleClick(example)
  \/ \E confirm \in BOOLEAN : handleClearChat(confirm)
  \/ \E r \in inflight, response \in Responses : Settle(r, TRUE, response, Null)
  \/ \E r \in inflight, err \in Failures : Settle(r, FALSE, NoResponse, err)
  \/ \E r \in inflight : Resolve(r)
  \/ \E r \in inflight : Reject(r)

\* The session with all its events falling into one tick of the millisecond
\* clock.  The clock is read for message ids only, and nothing reads an id:
\* the properties that do not mention ids are checked here.
Spec == Init /\ [][Next]_vars

\* The session with the clock advancing between events.
NextClock == Next \/ Tick

SpecClock == Init /\ [][NextClock]_vars

\* The session's two operations called directly, at any time and with any
\* text: without the conditions under which the form and the buttons are
\* rendered.
ApiSend(text) ==
  /\ handleSendMessage(text)
  /\ UNCHANGED message

ApiClear == clearChat

NextSession ==
  \/ \E text \in Texts \cup ExampleQuestions : ApiSend(text)
  \/ ApiClear
  \/ \E r \in inflight, response \in Responses : Settle(r, TRUE, response, Null)
  \/ \E r \in inflight, err \in Failures : Settle(r, FALSE, NoResponse, err)
  \/ \E r \in inflight : Resolve(r)
  \/ \E r \in inflight : Reject(r)

SpecSession == Init /\ [][NextSession]_vars

\* The Dashboard page, and the useDashboard hook driven by a component that
\* changes its arguments and calls refetch at any time.
SpecDashboard == Init /\ [][NextDashboard]_vars

SpecUseDashboard == Init /\ [][NextUseDashboard]_vars

\* The steps of the Dashboard page that no user takes: a request is answered,
\* fails or runs into the 30 second timeout of apiClient, and the
\* continuation of a settled await runs.
DashProgress ==
  \/ \E p \in refreshes, analyses \in Overviews : OverviewSettle(p, TRUE, analyses)
  \/ \E p \in refreshes : OverviewSettle(p, FALSE, <<>>)
  \/ \E p \in refreshes : OverviewContinue(p)
  \/ \E p \in refreshes, t \in DashTickers, price \in PriceData : PriceSettle(p, t, TRUE, price)
  \/ \E p \in refreshes, t \in DashTickers : PriceSettle(p, t, FALSE, Null)
  \/ \E p \in refreshes : PricesContinue(p)
  \/ \E p \in refreshes, t \in DashTickers : \E items \in NewsLists(t) :
       p.newsFetch.ticker = t /\ NewsSettle(p, TRUE, items)
  \/ \E p \in refreshes : NewsSettle(p, FALSE, <<>>)
  \/ \E p \in refreshes : NewsContinue(p)

\* The Dashboard page when every outbound request settles and every
\* continuation is run.
SpecDashboardLive == Init /\ [][NextDashboard]_vars /\ WF_vars(DashProgress)

\* isValidTicker called once on each argument.
InitTicker ==
  /\ ChatInit
  /\ DashInit
  /\ UdInit
  /\ TickerInit

SpecTicker == InitTicker /\ [][Validate]_vars

\* ---------------------------------------------------------- properties
Last(s) == s[Len(s)]

\* the step in which the sendMessage call of request r returns
Returns(r) == r \in inflight /\ r.status # "pending" /\ inflight' = inflight \ {r}

\* the step in which sendMessage is called
Called == nextReq' # nextReq

HistoryPair(query, reply) ==
  <<[role |-> "user", content |-> query], [role |-> "assistant", content |-> reply]>>

\* (role, content) of the user messages of a log that are directly followed
\* by an assistant message, each with that assistant message
RECURSIVE AnsweredPairs(_)
AnsweredPairs(log) ==
  IF Len(log) < 2 THEN <<>>
  ELSE IF log[1].type = "user" /\ log[2].type = "assistant"
       THEN HistoryPair(log[1].content, log[2].content)
              \o AnsweredPairs(SubSeq(log, 3, Len(log)))
       ELSE AnsweredPairs(Tail(log))

\* C1: while a send is pending (isLoading), no step calls sendMessage with
\* effect: no request is issued and no user message is appended.
C1_PendingSendIsNoOp ==
  [][isLoading =>
       /\ ~Called
       /\ Cardinality(inflight') <= Cardinality(inflight)
       /\ Len(messages') > Len(messages) => Last(messages').type # "user"]_vars

\* C2: at most one chat request is in flight in every reachable state.
C2_AtMostOneInFlight == Cardinality(inflight) <= 1

\* C3: after N sendMessage calls made one after the other since the log was
\* last empty and idle, the log holds exactly 2N messages: for each call, in
\* call order, its user message followed by one assistant or error message.
C3_SequentialLogLength ==
  (inflight = {} /\ ~dirty) =>
    /\ Len(messages) = 2 * Len(calls)
    /\ \A i \in 1..Len(calls) :
         /\ messages[2 * i - 1].type = "user"
         /\ messages[2 * i - 1].content = calls[i]
         /\ messages[2 * i].type \in {"assistant", "error"}

C3_Witness ==
  /\ inflight = {} /\ ~dirty /\ Len(calls) = 2
  /\ messages[2].type = "error" /\ messages[4].type = "assistant"

C5_HistoryMatchesLog ==
  inflight = {} => chatHistory = AnsweredPairs(messages)

\* C6 as stated: every sendMessage call issues exactly one request, whose
\* chat_history holds the pair of every turn that completed successfully
\* before the call.
C6_RequestCarriesEveryCompletedTurn ==
  [][Called =>
       \E r \in inflight' :
         /\ r \notin inflight
         /\ inflight' = inflight \cup {r}
         /\ r.chat_history = completed]_vars

\* C6 amended: every sendMessage call issues exactly one request, whose
\* chat_history holds the pair of every turn that completed successfully
\* since the last clearMessages, in order, and nothing else.
C6_RequestCarriesHistorySinceClear ==
  [][Called =>
       \E r \in inflight' :
         /\ r \notin inflight
         /\ inflight' = inflight \cup {r}
         /\ r.status = "pending"
         /\ r.chat_history = SubSeq(completed, clearMark + 1, Len(completed))]_vars

C6_Witness ==
  \E r \in inflight :
    /\ Len(r.chat_history) = 2
    /\ r.chat_history = completed
    /\ clearMark = 0

\* C7: the return of a failed send appends exactly one error message with
\* the fixed text, sets error to the failure detail, appends no assistant
\* message and leaves the earlier messages as they were.
C7_FailureAppendsOneErrorMessage ==
  [][\A r \in inflight : (Returns(r) /\ r.status = "rejected") =>
       /\ Len(messages') = Len(messages) + 1
       /\ SubSeq(messages', 1, Len(messages)) = messages
       /\ Last(messages').type = "error"
       /\ Last(messages').content = ErrorText
       /\ error' = r.err]_vars

C7_Witness ==
  /\ inflight = {} /\ Len(messages) = 4
  /\ messages[2].type = "error" /\ messages[4].type = "error"
  /\ error = "timeout of 30000ms exceeded"

\* C8: from a clear until the next sendMessage call, the log and the history
\* are empty, error is null and currentTicker is the initial ticker.
C8_ClearedStateStays ==
  cleared =>
    /\ messages = <<>>
    /\ chatHistory = <<>>
    /\ error = Null
    /\ currentTicker = initialTicker

\* C9: the return of a successful send sets currentTicker to the response's
\* ticker when the response names a ticker other than the current one, and
\* leaves it unchanged otherwise; the return of a failed send leaves it
\* unchanged.
C9_TickerFollowsResponse ==
  [][\A r \in inflight : Returns(r) =>
       IF /\ r.status = "fulfilled"
          /\ r.response.ticker # NoTicker
          /\ r.response.ticker # currentTicker
       THEN currentTicker' = r.response.ticker
       ELSE currentTicker' = currentTicker]_vars

\* C10: a sendMessage call leaves isLoading true with its request issued,
\* and isLoading is false when the call returns, fulfilled or rejected.
C10_PendingSetAndReset ==
  [][/\ Called => (isLoading' /\ inflight' # {})
     /\ \A r \in inflight : Returns(r) => ~isLoading']_vars

C10_Witness ==
  /\ nextReq > 0 /\ inflight = {} /\ ~isLoading /\ error # Null

\* C11: the log is ordered by turn: every assistant or error message is
\* directly preceded by the user message of the same sendMessage call.
C11_LogOrderedByTurn ==
  \A i \in 1..Len(messages) :
    messages[i].type \in {"assistant", "error"} =>
      /\ i > 1
      /\ messages[i - 1].type = "user"
      /\ turnOf[i - 1] = turnOf[i]

\* C12: the ids of the log are strictly increasing in creation order (and so
\* pairwise distinct), whatever the timing of sends and responses.
C12_IdsStrictlyIncreasing ==
  \A i, j \in 1..Len(messages) : i < j => messages[i].id < messages[j].id

\* C13: a sendMessage call with empty or blank text is a no-op: no call
\* that takes effect (a request issued, a user message appended) has such a
\* text.
C13_BlankSendIsNoOp ==
  [][Called =>
       /\ \A r \in inflight' \ inflight : trim(r.query) # <<>>
       /\ trim(Last(messages').content) # <<>>]_vars

\* C20: a clear made directly after a clear leaves messages, chatHistory,
\* error and currentTicker as the first clear left them.
C20_ClearIdempotent ==
  [][(clears = 1 /\ clears' = 2) =>
       UNCHANGED <<messages, chatHistory, error, currentTicker>>]_vars

C20_Witness ==
  /\ clears = 2 /\ Len(completed) = 4 /\ clearMark = 4
  /\ messages = <<>> /\ chatHistory = <<>>

\* ------------------------------------------------------ dashboard claims
\* C14: when a second refresh is started before the first has completed,
\* only the second's result is published: the continuation of a call that
\* has been superseded leaves the published data as it was.
C14_SupersededRefreshNotPublished ==
  [][\A r \in udRequests :
       (r \notin udRequests' /\ r.status = "fulfilled" /\ r.gen < udNextGen)
         => udData' = udData]_vars

\* C15: whenever the dashboard is rendered (loading false, error null) the
\* analyses, the prices and the news come from the same refresh cycle; a
\* cycle with an empty list has no prices and no news of its own.
C15_SnapshotFromOneCycle ==
  (~loading /\ dashError = Null) =>
    \/ pricesGen = dataGen /\ newsGen = dataGen
    \/ dashboardData.analyses = <<>> /\ prices = NoPrices /\ news = <<>>

\* the call of generation g stands at position pc after the step
AtNext(g, pc) == \E p \in refreshes' : p.gen = g /\ p.pc = pc

\* C16: in a refresh whose overview succeeded, whatever subset of the price
\* fetches failed, the prices published hold the fetched price of every
\* ticker that succeeded and null for every ticker that failed, the refresh
\* goes on to its news fetch, and it ends with error null.
C16_PartialPriceFailure ==
  [][\A p \in refreshes :
       /\ (p.pc = "prices" /\ ~AtNext(p.gen, "prices")) =>
            /\ DOMAIN prices' = Range(p.overview.analyses)
            /\ \A t \in Range(p.overview.analyses) :
                 prices'[t] = IF p.priceFetch[t].status = "fulfilled"
                              THEN p.priceFetch[t].price ELSE Null
            /\ dashError' = Null
            /\ AtNext(p.gen, "news")
       /\ (p.pc = "news" /\ ~AtNext(p.gen, "news")) =>
            /\ prices' = prices
            /\ dashError' = Null
            /\ ~loading']_vars

\* a completed refresh of three tickers: one price failed, two arrived
C16_Witness ==
  /\ ~loading /\ dashError = Null
  /\ pricesGen = dataGen /\ newsGen = dataGen
  /\ dashboardData.analyses = <<"AAPL", "MSFT", "TSLA">>
  /\ prices = [t \in DashTickers |-> IF t = "MSFT" THEN Null ELSE "p1"]

\* C17: when the overview fetch of a refresh fails the refresh ends there:
\* no price or news request is issued, analyses, prices and news keep their
\* values, error is the fixed message and loading is false.
C17_OverviewFailureFailsRefresh ==
  [][\A p \in refreshes :
       (/\ p.pc = "overview" /\ p.overview.status = "rejected"
        /\ ~AtNext(p.gen, "overview")) =>
         /\ \A q \in refreshes' : q.gen # p.gen
         /\ UNCHANGED <<dashboardData, prices, news, newsRequests>>
         /\ dashError' = DashErrorText
         /\ ~loading']_vars

\* a refresh failed after an earlier one had published a list with news
C17_Witness ==
  /\ dashError = DashErrorText /\ ~loading /\ refreshes = {}
  /\ nextGen > dataGen
  /\ dashboardData.analyses # <<>> /\ news # <<>>
  /\ \E t \in DOMAIN prices : prices[t] # Null

\* the news requests that the call of generation g has issued so far
NewsFetchesOf(requests, g) == {i \in 1..Len(requests) : requests[i][1] = g}

\* call p, whose overview arrived, ends with this step
Completes(p) ==
  /\ p \in refreshes /\ p.overview.status = "fulfilled"
  /\ \A q \in refreshes' : q.gen # p.gen

\* C18 as stated: every refresh whose overview fetch succeeds has issued
\* exactly one news fetch, for the ticker at index 0 of the list, and when
\* that fetch failed news is empty and the refresh succeeds.
C18_OneNewsFetchPerRefresh ==
  [][\A p \in refreshes : Completes(p) =>
       /\ Cardinality(NewsFetchesOf(newsRequests', p.gen)) = 1
       /\ \A i \in NewsFetchesOf(newsRequests', p.gen) :
            newsRequests'[i][2] = p.overview.analyses[1]
       /\ p.newsFetch.status = "rejected" => news' = <<>>
       /\ dashError' = Null /\ ~loading']_vars

\* C18 amended: a refresh whose overview returns a non-empty list has issued
\* exactly one news fetch, for the ticker at index 0, and when that fetch
\* failed news is empty and the refresh succeeds; a refresh whose overview
\* returns an empty list has issued no news fetch and succeeds.
C18_OneNewsFetchPerNonEmptyRefresh ==
  [][\A p \in refreshes : Completes(p) =>
       /\ IF p.overview.analyses # <<>>
          THEN /\ Cardinality(NewsFetchesOf(newsRequests', p.gen)) = 1
               /\ \A i \in NewsFetchesOf(newsRequests', p.gen) :
                    newsRequests'[i][2] = p.overview.analyses[1]
               /\ p.newsFetch.status = "rejected" => news' = <<>>
          ELSE NewsFetchesOf(newsRequests', p.gen) = {}
       /\ dashError' = Null /\ ~loading']_vars

\* three refreshes completed: [AAPL], then an empty list, then [MSFT, AAPL]
C18_Witness ==
  /\ ~loading /\ dashError = Null /\ refreshes = {}
  /\ dataGen = 3 /\ dashboardData.analyses = <<"MSFT", "AAPL">>
  /\ newsRequests = << <<1, "AAPL">>, <<3, "MSFT">> >>
  /\ newsGen = 3 /\ news = <<>>

\* C19: after every completed successful refresh, news is empty or holds the
\* news fetched for the first ticker of the published analyses, and it is
\* empty when the published list is empty.
C19_NewsOfFirstTicker ==
  (~loading /\ dashError = Null) =>
    IF dashboardData.analyses = <<>>
    THEN news = <<>>
    ELSE \A i \in 1..Len(news) : news[i].ticker = dashboardData.analyses[1]

\* ---------------------------------------------------- isValidTicker claim
\* the letters A-Z among the characters of the model
UppercaseLetters == {"A", "Z"}

\* C21: isValidTicker returns true exactly for the strings made of 1 to 5
\* uppercase letters and false for every other argument.
C21_ValidTickerExact ==
  tickerChecked =>
    (tickerResult <=>
       /\ tickerInput.kind = "string"
       /\ Len(tickerInput.chars) \in 1..5
       /\ \A i \in 1..Len(tickerInput.chars) :
            tickerInput.chars[i] \in UppercaseLetters)

C21_Witness ==
  /\ tickerChecked /\ tickerResult
  /\ tickerInput = [kind |-> "string", chars |-> <<"A", "Z", "Z", "A", "Z">>]

\* C22: within a refresh, prices are published and the news fetch is issued
\* only when every price fetch of that refresh, one per listed ticker, has
\* settled.
C22_PricesJoinedBeforeNews ==
  [][(prices' # prices \/ pricesGen' # pricesGen
        \/ newsRequests' # newsRequests) =>
       \E p \in refreshes :
         /\ p.pc = "prices"
         /\ DOMAIN p.priceFetch = Range(p.overview.analyses)
         /\ \A t \in DOMAIN p.priceFetch :
              p.priceFetch[t].status \in {"fulfilled", "rejected"}
         /\ pricesGen' = p.gen
         /\ newsRequests' = Append(newsRequests, <<p.gen, p.overview.analyses[1]>>)]_vars

\* the news fetch of a list of three is pending, its prices are published
C22_Witness ==
  \E p \in refreshes :
    /\ p.pc = "news" /\ p.newsFetch.status = "pending"
    /\ Len(p.overview.analyses) = 3
    /\ pricesGen = p.gen
    /\ prices["AAPL"] = Null /\ prices["TSLA"] = "p1"
    /\ Last(newsRequests) = <<p.gen, "AAPL">>

\* C23: error is cleared at the start of every sendMessage call, is empty
\* while a call has not returned, and is empty after a call that returned
\* with success.
C23_ErrorClearedWhilePending ==
  /\ inflight # {} => error = Null
  /\ (inflight = {} /\ Len(messages) > 0 /\ Last(messages).type = "assistant")
       => error = Null

\* C24: the message log is append-only between clears: every step other
\* than a clear (the steps that do not raise clears) keeps the messages of
\* the log as they are, in place, and appends at most one message; a clear
\* removes them all.
C24_LogAppendOnly ==
  [][IF clears' > clears
     THEN messages' = <<>>
     ELSE /\ Len(messages') \in {Len(messages), Len(messages) + 1}
          /\ \A i \in 1..Len(messages) : messages'[i] = messages[i]]_vars

\* the log of a failed turn followed by an answered turn
C24_Witness ==
  /\ Len(messages) = 4
  /\ messages[2].type = "error" /\ messages[4].type = "assistant"
  /\ clears = 0

\* C25: when every outbound request settles, a refresh that is running
\* ends: loading becomes false with error set or with data published.
C25_RefreshEnds ==
  loading ~> (~loading /\ (dashError # Null \/ dashboardData.loaded))

\* the last refresh the model allows has ended and published its snapshot
C25_Witness ==
  /\ ~loading /\ refreshes = {} /\ dashError = Null
  /\ nextGen >= 3 /\ dataGen = nextGen /\ newsGen = nextGen

\* C26: on the Dashboard page at most one refresh is running at any time,
\* and loading is true exactly while one is running.
C26_OneRefreshInFlight ==
  /\ Cardinality(refreshes) <= 1
  /\ loading <=> refreshes # {}

\* a refresh started from the filter select is running
C26_Witness ==
  /\ loading /\ Cardinality(refreshes) = 1
  /\ signalFilter = "SELL"
  /\ \E p \in refreshes : p.gen = 2 /\ p.filter = "SELL" /\ p.pc = "prices"

\* C27: after every completed successful refresh the keys of prices are
\* exactly the tickers of the published analyses.
C27_PriceKeysMatchAnalyses ==
  (~loading /\ dashError = Null) =>
    DOMAIN prices = Range(dashboardData.analyses)

\* C28: in the useDashboard hook loading is true in every state in which an
\* overview request started by the hook has not yet settled.
C28_LoadingWhileOutstanding ==
  (\E r \in udRequests : r.status = "pending") => udLoading

====
